---- MODULE Spec2Model ----
(***************************************************************************)
(* Model of py-taggedcache (taggedcache.py): a tag index kept in redis     *)
(* next to the cached values.                                              *)
(*                                                                         *)
(* The redis database is the state: the primary entries (val, with ttl     *)
(* telling whether an expiry is pending on the entry), the two root sets   *)
(* CacheKeys and Tags, and the two families of index sets tags-by-key:<k>  *)
(* and keys-by-tag:<t>.  A redis set that has no member does not exist, so *)
(* an absent set and an empty set are the same value {}.                   *)
(*                                                                         *)
(* Every method of TaggedCache is one action: the calls run one at a time  *)
(* and a pipeline is applied as a whole, command after command, when       *)
(* execute() is called.  Store-side expiry is the action Expire.  This is  *)
(* the specification Spec.  The specification RaceSpec has the calls of    *)
(* several clients, one of them followed round trip by round trip.         *)
(*                                                                         *)
(* Cache keys and tags are taken from name spaces that do not collide with *)
(* the names of the index sets ("CacheKeys", "Tags", "tags-by-key:...",    *)
(* "keys-by-tag:...").                                                     *)
(***************************************************************************)
EXTENDS Integers, FiniteSets, Sequences, TLC

\* Bound of the model: the longest list of tags given to set.
MaxTagsLen == 2

\* Python's None: the reply of redis.get for a key that does not exist, and
\* an omitted argument.
None == "None"

\* The cache keys, tags and values of the calls: those of the test suite for
\* two cache entries that share a tag.
Keys == {"User:1", "User:2"}
TagNames == {"User", "PremiumUser"}
Values == {"mitch", "foo"}
\* The ttl argument of set: omitted, or a number of seconds.
TTLs == {None, "1"}
\* The tags argument of set: a list that may hold a tag more than once.
TagLists == UNION {[1..n -> TagNames] : n \in 0..MaxTagsLen}

VARIABLES
  val,        \* val[k]: the primary entry stored under key k, None if there is none
  ttl,        \* ttl[k]: TRUE iff the primary entry of k has an expiry pending
  CacheKeys,  \* the redis set "CacheKeys"
  Tags,       \* the redis set "Tags"
  tagsByKey,  \* tagsByKey[k]: the redis set "tags-by-key:<k>"
  keysByTag,  \* keysByTag[t]: the redis set "keys-by-tag:<t>"
  expired,    \* history: keys whose primary entry was last removed by expiry
  last,       \* history: the call that produced this state, its arguments and result
  pre,        \* history: the database as it was when that call started
  inflight,   \* the call of one client that is between two of its redis round trips
  race,       \* history: how far a set that overtook the gc in flight has got
  sweeps      \* history: the gc() calls run since any other step, counted up to two

vars ==
  <<val, ttl, CacheKeys, Tags, tagsByKey, keysByTag, expired, last, pre,
    inflight, race, sweeps>>

\* The database as one value.
Store ==
  [val |-> val, ttl |-> ttl, CacheKeys |-> CacheKeys, Tags |-> Tags,
   tagsByKey |-> tagsByKey, keysByTag |-> keysByTag]

EmptyStore ==
  [val |-> [k \in Keys |-> None], ttl |-> [k \in Keys |-> FALSE],
   CacheKeys |-> {}, Tags |-> {},
   tagsByKey |-> [k \in Keys |-> {}], keysByTag |-> [t \in TagNames |-> {}]]

----------------------------------------------------------------------------
\* The redis commands the cache uses.  A set is named by its family (coll)
\* and the key or tag it belongs to (id; None for the two root sets).

smembers(s, coll, id) ==
  CASE coll = "CacheKeys" -> s.CacheKeys
    [] coll = "Tags" -> s.Tags
    [] coll = "tags-by-key" -> s.tagsByKey[id]
    [] coll = "keys-by-tag" -> s.keysByTag[id]

scard(s, coll, id) == Cardinality(smembers(s, coll, id))

exists(s, key) == s.val[key] # None

get(s, key) == s.val[key]

\* The database s with the set (coll, id) holding exactly the members m.
WithMembers(s, coll, id, m) ==
  CASE coll = "CacheKeys" -> [s EXCEPT !.CacheKeys = m]
    [] coll = "Tags" -> [s EXCEPT !.Tags = m]
    [] coll = "tags-by-key" -> [s EXCEPT !.tagsByKey[id] = m]
    [] coll = "keys-by-tag" -> [s EXCEPT !.keysByTag[id] = m]

sadd(coll, id, member) == [cmd |-> "sadd", coll |-> coll, id |-> id, arg |-> member]
srem(coll, id, member) == [cmd |-> "srem", coll |-> coll, id |-> id, arg |-> member]
delete(coll, id) == [cmd |-> "delete", coll |-> coll, id |-> id, arg |-> None]
set(key, value) == [cmd |-> "set", coll |-> "key", id |-> key, arg |-> value]
expire(key, seconds) == [cmd |-> "expire", coll |-> "key", id |-> key, arg |-> seconds]

\* One command applied to the database s.  SET drops a pending expiry of the
\* key; DEL of a plain key drops the entry and its expiry.
Apply(s, c) ==
  CASE c.cmd = "sadd" ->
         WithMembers(s, c.coll, c.id, smembers(s, c.coll, c.id) \cup {c.arg})
    [] c.cmd = "srem" ->
         WithMembers(s, c.coll, c.id, smembers(s, c.coll, c.id) \ {c.arg})
    [] c.cmd = "delete" ->
         IF c.coll = "key"
           THEN [s EXCEPT !.val[c.id] = None, !.ttl[c.id] = FALSE]
           ELSE WithMembers(s, c.coll, c.id, {})
    [] c.cmd = "set" -> [s EXCEPT !.val[c.id] = c.arg, !.ttl[c.id] = FALSE]
    [] c.cmd = "expire" ->
         IF exists(s, c.id) THEN [s EXCEPT !.ttl[c.id] = TRUE] ELSE s

\* pipeline.execute(): the queued commands applied in the order queued.
RECURSIVE execute(_, _)
execute(s, p) == IF p = <<>> THEN s ELSE execute(Apply(s, Head(p)), Tail(p))

\* The members of a set in the order a Python loop visits them.  The
\* commands queued from inside such a loop only remove (srem, delete), so the
\* database after execute() does not depend on the order.
RECURSIVE Iter(_)
Iter(S) ==
  IF S = {} THEN <<>>
  ELSE LET x == CHOOSE y \in S : TRUE IN <<x>> \o Iter(S \ {x})

\* The concatenation of f[1], ..., f[Len(f)].
RECURSIVE Flatten(_)
Flatten(f) == IF f = <<>> THEN <<>> ELSE Head(f) \o Flatten(Tail(f))

ToSet(seq) == {seq[i] : i \in 1..Len(seq)}

----------------------------------------------------------------------------
\* The methods of TaggedCache, as functions of the database.

\* set() as it would be if it replaced the tags of the key.
set_pipeline_replacing_tags(key, value, tags, seconds) ==
  <<delete("tags-by-key", key)>>
  \o Flatten([i \in 1..Len(tags) |->
                <<sadd("tags-by-key", key, tags[i]),
                  sadd("keys-by-tag", tags[i], key),
                  sadd("Tags", None, tags[i])>>])
  \o <<sadd("CacheKeys", None, key), set(key, value)>>
  \o (IF seconds # None THEN <<expire(key, seconds)>> ELSE <<>>)

\* set() as it would be if it did not enter the tags in the root set Tags.
set_pipeline_without_root_tags(key, value, tags, seconds) ==
  Flatten([i \in 1..Len(tags) |->
             <<sadd("tags-by-key", key, tags[i]),
               sadd("keys-by-tag", tags[i], key)>>])
  \o <<sadd("CacheKeys", None, key), set(key, value)>>
  \o (IF seconds # None THEN <<expire(key, seconds)>> ELSE <<>>)

\* The pipeline queued by set().  "if ttl:" queues no expire for an omitted
\* ttl.
set_pipeline(key, value, tags, seconds) ==
  Flatten([i \in 1..Len(tags) |->
             <<sadd("tags-by-key", key, tags[i]),
               sadd("keys-by-tag", tags[i], key),
               sadd("Tags", None, tags[i])>>])
  \o <<sadd("CacheKeys", None, key), set(key, value)>>
  \o (IF seconds # None THEN <<expire(key, seconds)>> ELSE <<>>)

cache_set(s, key, value, tags, seconds) ==
  execute(s, set_pipeline(key, value, tags, seconds))

\* gc(): the keys to check ("keys or []", then CacheKeys if that is empty).
gc_keys(s, keys) == IF keys = {} THEN smembers(s, "CacheKeys", None) ELSE keys

\* gc(): the tags to check.
gc_tags(s, tags) == IF tags = {} THEN smembers(s, "Tags", None) ELSE tags

\* gc() as it would be if it cleaned one direction of the index only.
gc_key_commands_one_direction(s, key) ==
  IF ~exists(s, key)
    THEN <<srem("CacheKeys", None, key), delete("tags-by-key", key)>>
    ELSE <<>>

\* gc() as it would be if it did not ask whether the key exists.
gc_key_commands_unconditional(s, key) ==
  LET ts == Iter(smembers(s, "tags-by-key", key))
  IN <<srem("CacheKeys", None, key)>>
     \o [j \in 1..Len(ts) |-> srem("keys-by-tag", ts[j], key)]
     \o <<delete("tags-by-key", key)>>

\* gc() as it would be if it deleted what is stored under a key it read as
\* missing.
gc_key_commands_deleting_entry(s, key) ==
  IF ~exists(s, key)
    THEN LET ts == Iter(smembers(s, "tags-by-key", key))
         IN <<delete("key", key), srem("CacheKeys", None, key)>>
            \o [j \in 1..Len(ts) |-> srem("keys-by-tag", ts[j], key)]
            \o <<delete("tags-by-key", key)>>
    ELSE <<>>

\* gc(): the commands queued for one key, from reads of the database s.
gc_key_commands(s, key) ==
  IF ~exists(s, key)
    THEN LET ts == Iter(smembers(s, "tags-by-key", key))
         IN <<srem("CacheKeys", None, key)>>
            \o [j \in 1..Len(ts) |-> srem("keys-by-tag", ts[j], key)]
            \o <<delete("tags-by-key", key)>>
    ELSE <<>>

\* gc(): the commands queued for one tag, from reads of the database s.
gc_tag_commands(s, tag) ==
  IF scard(s, "keys-by-tag", tag) = 0
    THEN <<srem("Tags", None, tag), delete("keys-by-tag", tag)>>
    ELSE <<>>

\* gc(): the whole pipeline.  Every read is made of the database as it is
\* before the pipeline executes.
gc_pipeline(s, keys, tags) ==
  LET ks == Iter(gc_keys(s, keys))
      ts == Iter(gc_tags(s, tags))
  IN Flatten([i \in 1..Len(ks) |-> gc_key_commands(s, ks[i])])
     \o Flatten([i \in 1..Len(ts) |-> gc_tag_commands(s, ts[i])])

cache_gc(s, keys, tags) == execute(s, gc_pipeline(s, keys, tags))

\* get() as it would be if a miss reconciled whatever the flag gc says.
cache_get_ignoring_flag(s, key, gc) ==
  IF get(s, key) = None THEN cache_gc(s, {key}, {}) ELSE s

\* get(): the database after the call (the value returned is get(s, key)).
cache_get(s, key, gc) ==
  IF get(s, key) = None /\ gc THEN cache_gc(s, {key}, {}) ELSE s

\* clear() as it would be if it deleted the entry and did not reconcile.
cache_clear_without_gc(s, key) == Apply(s, delete("key", key))

\* clear() as it would be if it ran the full sweep, gc().
cache_clear_full_sweep(s, key) == cache_gc(Apply(s, delete("key", key)), {}, {})

cache_clear(s, key) == cache_gc(Apply(s, delete("key", key)), {key}, {})

\* clear_tag(): the local deleted_keys.
deleted_keys(s, tag) == smembers(s, "keys-by-tag", tag)

\* clear_tag() as it would be if it deleted the tag's set only.
clear_tag_pipeline_keeping_entries(s, tag) == <<delete("keys-by-tag", tag)>>

clear_tag_pipeline(s, tag) ==
  LET ks == Iter(deleted_keys(s, tag))
  IN [i \in 1..Len(ks) |-> delete("key", ks[i])]
     \o <<delete("keys-by-tag", tag)>>

\* clear_tag() as it would be if it reconciled before its pipeline executed.
cache_clear_tag_gc_first(s, tag) ==
  execute(cache_gc(s, deleted_keys(s, tag), {}), clear_tag_pipeline(s, tag))

cache_clear_tag(s, tag) ==
  cache_gc(execute(s, clear_tag_pipeline(s, tag)), deleted_keys(s, tag), {})

\* clear_all() as it would be if it left the tags-by-key sets.
clear_all_pipeline_keeping_tags_by_key(s) ==
  LET ks == Iter(smembers(s, "CacheKeys", None))
      ts == Iter(smembers(s, "Tags", None))
  IN [i \in 1..Len(ks) |-> delete("key", ks[i])]
     \o [i \in 1..Len(ts) |-> delete("keys-by-tag", ts[i])]
     \o <<delete("CacheKeys", None), delete("Tags", None)>>

clear_all_pipeline(s) ==
  LET ks == Iter(smembers(s, "CacheKeys", None))
      ts == Iter(smembers(s, "Tags", None))
  IN Flatten([i \in 1..Len(ks) |->
                <<delete("key", ks[i]), delete("tags-by-key", ks[i])>>])
     \o [i \in 1..Len(ts) |-> delete("keys-by-tag", ts[i])]
     \o <<delete("CacheKeys", None), delete("Tags", None)>>

cache_clear_all(s) == execute(s, clear_all_pipeline(s))

----------------------------------------------------------------------------------------------------------------------------------------
\* The state machine.

\* The record of a call: its name, its arguments (key, value, tag, the list
\* tags of set as the set of its tags and whether it repeats one, the flag gc
\* of get, the arguments gc_keys and gc_tags of gc, each None, <<>>, FALSE or
\* {} when the call has none), what it returned (ret for get, members for
\* get_tags and get_keys), and whether the call before it was clear_all.
Call(op, key, value, tag, tags, gc, keys_arg, tags_arg, ret, members) ==
  [op |-> op, key |-> key, value |-> value, tag |-> tag, tags |-> ToSet(tags),
   repeated |-> Len(tags) > Cardinality(ToSet(tags)),
   gc |-> gc, gc_keys |-> keys_arg, gc_tags |-> tags_arg, ret |-> ret,
   members |-> members, after_clear_all |-> last.op = "clear_all"]

\* The database becomes s, and the call that made it is recorded.
\* No call is between two round trips.
Idle == [stage |-> "idle", pipeline |-> <<>>, keys |-> {}]

\* No set has overtaken a gc.
NoRace == [stage |-> "none", key |-> None, tags |-> {}]

Becomes(s, call) ==
  /\ val' = s.val
  /\ ttl' = s.ttl
  /\ CacheKeys' = s.CacheKeys
  /\ Tags' = s.Tags
  /\ tagsByKey' = s.tagsByKey
  /\ keysByTag' = s.keysByTag
  /\ last' = call
  /\ pre' = Store
  /\ UNCHANGED <<inflight, race, sweeps>>

Init ==
  /\ val = EmptyStore.val
  /\ ttl = EmptyStore.ttl
  /\ CacheKeys = {}
  /\ Tags = {}
  /\ tagsByKey = EmptyStore.tagsByKey
  /\ keysByTag = EmptyStore.keysByTag
  /\ expired = {}
  /\ last = [op |-> "init", key |-> None, value |-> None, tag |-> None,
             tags |-> {}, repeated |-> FALSE, gc |-> FALSE,
             gc_keys |-> {}, gc_tags |-> {},
             ret |-> None, members |-> {}, after_clear_all |-> FALSE]
  /\ pre = EmptyStore
  /\ inflight = Idle
  /\ race = NoRace
  /\ sweeps = 0

Set(key, value, tags, seconds) ==
  /\ Becomes(cache_set(Store, key, value, tags, seconds),
             Call("set", key, value, None, tags, FALSE, {}, {}, None, {}))
  /\ expired' = expired \ {key}

Get(key, gc) ==
  /\ Becomes(cache_get(Store, key, gc),
             Call("get", key, None, None, <<>>, gc, {}, {}, get(Store, key), {}))
  /\ UNCHANGED expired

GetTags(key) ==
  /\ Becomes(Store,
             Call("get_tags", key, None, None, <<>>, FALSE, {}, {}, None,
                  smembers(Store, "tags-by-key", key)))
  /\ UNCHANGED expired

GetKeys(tag) ==
  /\ Becomes(Store,
             Call("get_keys", None, None, tag, <<>>, FALSE, {}, {}, None,
                  smembers(Store, "keys-by-tag", tag)))
  /\ UNCHANGED expired

Clear(key) ==
  /\ Becomes(cache_clear(Store, key),
             Call("clear", key, None, None, <<>>, FALSE, {}, {}, None, {}))
  /\ UNCHANGED expired

ClearTag(tag) ==
  /\ Becomes(cache_clear_tag(Store, tag),
             Call("clear_tag", None, None, tag, <<>>, FALSE, {}, {}, None, {}))
  /\ UNCHANGED expired

ClearAll ==
  /\ Becomes(cache_clear_all(Store),
             Call("clear_all", None, None, None, <<>>, FALSE, {}, {}, None, {}))
  /\ UNCHANGED expired

\* gc(keys, tags); {} stands for an omitted (or empty) argument.
Gc(keys, tags) ==
  /\ Becomes(cache_gc(Store, keys, tags),
             Call("gc", None, None, None, <<>>, FALSE, keys, tags, None, {}))
  /\ UNCHANGED expired

\* The store removes a primary entry whose time to live has run out.
Expire(key) ==
  /\ exists(Store, key)
  /\ ttl[key]
  /\ Becomes(Apply(Store, delete("key", key)),
             Call("expire", key, None, None, <<>>, FALSE, {}, {}, None, {}))
  /\ expired' = expired \cup {key}

Next ==
  \/ \E key \in Keys, value \in Values, tags \in TagLists, seconds \in TTLs :
       Set(key, value, tags, seconds)
  \/ \E key \in Keys, gc \in BOOLEAN : Get(key, gc)
  \/ \E key \in Keys : GetTags(key)
  \/ \E tag \in TagNames : GetKeys(tag)
  \/ \E key \in Keys : Clear(key)
  \/ \E tag \in TagNames : ClearTag(tag)
  \/ ClearAll
  \/ \E keys \in SUBSET Keys, tags \in SUBSET TagNames : Gc(keys, tags)
  \/ \E key \in Keys : Expire(key)

Spec == Init /\ [][Next]_vars

----------------------------------------------------------------------------
\* Several clients on one database.  Every redis round trip is atomic, and so
\* is pipeline.execute() (a MULTI/EXEC transaction), but a method that makes
\* more than one round trip can be overtaken between them by the calls of
\* other clients.  One client's call is followed round trip by round trip
\* (inflight); the calls of the other clients are taken as a whole.  gc makes
\* its reads (exists, smembers, scard) one after the other and queues from
\* them; the reads are taken at one instant, which is one of the schedules.
\*
\* inflight.stage is the round trip the call makes next:
\*   "clear_tag_batch"  clear_tag has read keys-by-tag:<tag> and queued its
\*                      deletes (pipeline); keys is deleted_keys
\*   "gc_read"          gc(keys) has been entered
\*   "gc_batch"         gc has made its reads and queued pipeline

\* The database becomes s; the history of the one-at-a-time calls stays.
Commit(s) ==
  /\ val' = s.val
  /\ ttl' = s.ttl
  /\ CacheKeys' = s.CacheKeys
  /\ Tags' = s.Tags
  /\ tagsByKey' = s.tagsByKey
  /\ keysByTag' = s.keysByTag
  /\ UNCHANGED <<expired, last, pre>>

\* The gc in flight has read key as missing and queued the removal of its
\* index entries.
ReadAsMissing(key) ==
  /\ inflight.stage = "gc_batch"
  /\ srem("CacheKeys", None, key) \in ToSet(inflight.pipeline)

\* gc(keys) is entered by a direct call.
BeginGc(keys) ==
  /\ inflight = Idle
  /\ inflight' = [stage |-> "gc_read", pipeline |-> <<>>, keys |-> keys]
  /\ race' = NoRace
  /\ sweeps' = 0
  /\ Commit(Store)

\* get(key) reads a miss and enters gc([key]).
BeginGetMiss(key) ==
  /\ inflight = Idle
  /\ get(Store, key) = None
  /\ inflight' = [stage |-> "gc_read", pipeline |-> <<>>, keys |-> {key}]
  /\ race' = NoRace
  /\ sweeps' = 0
  /\ Commit(Store)

\* clear(key) deletes the entry and enters gc([key]).
BeginClear(key) ==
  /\ inflight = Idle
  /\ inflight' = [stage |-> "gc_read", pipeline |-> <<>>, keys |-> {key}]
  /\ race' = NoRace
  /\ sweeps' = 0
  /\ Commit(Apply(Store, delete("key", key)))

\* clear_tag(tag) reads keys-by-tag:<tag> and queues its deletes.
BeginClearTag(tag) ==
  /\ inflight = Idle
  /\ inflight' = [stage |-> "clear_tag_batch",
                  pipeline |-> clear_tag_pipeline(Store, tag),
                  keys |-> deleted_keys(Store, tag)]
  /\ race' = NoRace
  /\ sweeps' = 0
  /\ Commit(Store)

\* clear_tag executes its pipeline and enters gc(deleted_keys).
ClearTagExecute ==
  /\ inflight.stage = "clear_tag_batch"
  /\ inflight' = [stage |-> "gc_read", pipeline |-> <<>>, keys |-> inflight.keys]
  /\ race' = NoRace
  /\ sweeps' = 0
  /\ Commit(execute(Store, inflight.pipeline))

\* gc makes its reads and queues its pipeline.
GcRead ==
  /\ inflight.stage = "gc_read"
  /\ inflight' = [stage |-> "gc_batch",
                  pipeline |-> gc_pipeline(Store, inflight.keys, {}),
                  keys |-> inflight.keys]
  /\ race' = NoRace
  /\ sweeps' = 0
  /\ Commit(Store)

\* gc executes its pipeline and returns.
GcExecute ==
  /\ inflight.stage = "gc_batch"
  /\ inflight' = Idle
  /\ race' = IF race.stage = "overtaken"
               THEN [race EXCEPT !.stage = "swept"]
               ELSE NoRace
  /\ sweeps' = 0
  /\ Commit(execute(Store, inflight.pipeline))

\* Another client's set.  It overtakes the gc in flight when that gc has read
\* the key as missing and has not executed its pipeline yet.
ConcurrentSet(key, value, tags, seconds) ==
  /\ Commit(cache_set(Store, key, value, tags, seconds))
  /\ race' = IF ReadAsMissing(key)
               THEN [stage |-> "overtaken", key |-> key, tags |-> ToSet(tags)]
               ELSE NoRace
  /\ sweeps' = 0
  /\ UNCHANGED inflight

\* Another client's get.  After the overtaken gc has executed, a get of the
\* key with nothing else in between is the next read of the key.
ConcurrentGet(key, gc) ==
  /\ Commit(cache_get(Store, key, gc))
  /\ race' = IF /\ race.stage \in {"swept", "converged"}
                /\ race.key = key
                /\ inflight = Idle
               THEN [race EXCEPT !.stage = "converged"]
               ELSE NoRace
  /\ sweeps' = 0
  /\ UNCHANGED inflight

\* Another client's gc().  After the overtaken gc has executed, a gc() with
\* nothing else in between is the next sweep.
ConcurrentGc ==
  /\ Commit(cache_gc(Store, {}, {}))
  /\ race' = IF race.stage \in {"swept", "converged"} /\ inflight = Idle
               THEN [race EXCEPT !.stage = "converged"]
               ELSE NoRace
  /\ sweeps' = IF inflight # Idle THEN 0 ELSE IF sweeps < 2 THEN sweeps + 1 ELSE 2
  /\ UNCHANGED inflight

ConcurrentClear(key) ==
  /\ Commit(cache_clear(Store, key))
  /\ race' = NoRace
  /\ sweeps' = 0
  /\ UNCHANGED inflight

ConcurrentClearTag(tag) ==
  /\ Commit(cache_clear_tag(Store, tag))
  /\ race' = NoRace
  /\ sweeps' = 0
  /\ UNCHANGED inflight

ConcurrentClearAll ==
  /\ Commit(cache_clear_all(Store))
  /\ race' = NoRace
  /\ sweeps' = 0
  /\ UNCHANGED inflight

\* The entry of key expires.
ConcurrentExpire(key) ==
  /\ exists(Store, key)
  /\ ttl[key]
  /\ Commit(Apply(Store, delete("key", key)))
  /\ race' = NoRace
  /\ sweeps' = 0
  /\ UNCHANGED inflight

\* The tags of the calls that interleave: the one tag that the two cache
\* entries share.
RaceTags == {"User"}
RaceTagLists == {tags \in TagLists : ToSet(tags) \subseteq RaceTags}

RaceNext ==
  \/ \E keys \in SUBSET Keys : BeginGc(keys)
  \/ \E key \in Keys : BeginGetMiss(key)
  \/ \E key \in Keys : BeginClear(key)
  \/ \E tag \in RaceTags : BeginClearTag(tag)
  \/ ClearTagExecute
  \/ GcRead
  \/ GcExecute
  \/ \E key \in Keys, value \in Values, tags \in RaceTagLists, seconds \in TTLs :
       ConcurrentSet(key, value, tags, seconds)
  \/ \E key \in Keys, gc \in BOOLEAN : ConcurrentGet(key, gc)
  \/ ConcurrentGc
  \/ \E key \in Keys : ConcurrentClear(key)
  \/ \E tag \in RaceTags : ConcurrentClearTag(tag)
  \/ ConcurrentClearAll
  \/ \E key \in Keys : ConcurrentExpire(key)

RaceSpec == Init /\ [][RaceNext]_vars

----------------------------------------------------------------------------
\* The properties.  get_tags(k), get_keys(t) and get(k) after a call are the
\* reads smembers and get of the database the call left.

\* The call that made this state is gc() with no arguments.
FullSweep == last.op = "gc" /\ last.gc_keys = {} /\ last.gc_tags = {}

\* The keys that had no primary entry when the call started.
Orphaned == {k \in Keys : ~exists(pre, k)}

\* C1 (tag-scoped invalidation): after clear_tag(t), get(k) returns None for
\* every key k that was a member of keys-by-tag:t when the call started, and
\* get_keys(t) is empty.
C1_ClearTagInvalidates ==
  last.op = "clear_tag" =>
    /\ \A k \in smembers(pre, "keys-by-tag", last.tag) : get(Store, k) = None
    /\ smembers(Store, "keys-by-tag", last.tag) = {}

\* clear_tag has run on a tag that had two keys, both with a primary entry.
C1_Witness ==
  /\ last.op = "clear_tag"
  /\ Cardinality(smembers(pre, "keys-by-tag", last.tag)) >= 2
  /\ \A k \in smembers(pre, "keys-by-tag", last.tag) : exists(pre, k)

\* C2 (full reset): clear_all() followed by gc() leaves the database empty:
\* no primary entry, no CacheKeys, no Tags, no tags-by-key and no keys-by-tag
\* set.
C2_FullReset == (FullSweep /\ last.after_clear_all) => Store = EmptyStore

\* gc() has run right after clear_all().
C2_Witness == FullSweep /\ last.after_clear_all

\* C3 (tag accumulation): after set(k, v1, A) followed by set(k, v2, B),
\* get_tags(k) is the union of A, B and what tags-by-key:k held before the
\* first call, k is in get_keys(t) for each of these tags t, and get(k)
\* returns v2.
C3_TagAccumulation ==
  [][(last.op = "set" /\ last'.op = "set" /\ last'.key = last.key) =>
       LET k == last.key
       IN /\ tagsByKey'[k] =
               smembers(pre, "tags-by-key", k) \cup last.tags
                 \cup last'.tags
          /\ \A t \in tagsByKey'[k] : k \in keysByTag'[t]
          /\ val'[k] = last'.value]_vars

\* A set has run on a key that had a value and tags, with another value and
\* with tags of which the key had some and lacked some.
C3_Witness ==
  /\ last.op = "set"
  /\ exists(pre, last.key)
  /\ get(pre, last.key) # last.value
  /\ smembers(pre, "tags-by-key", last.key) \ last.tags # {}
  /\ last.tags \ smembers(pre, "tags-by-key", last.key) # {}
  /\ get(Store, last.key) = last.value

\* C4 as stated (bidirectional consistency after set): after set(k, v, T),
\* get_tags(k) is exactly the set of the tags in T, k is in get_keys(t) for
\* every t in T, k is in CacheKeys, every t in T is in Tags, and get(k)
\* returns v.
C4_SetGivesExactlyItsTags ==
  last.op = "set" =>
    /\ smembers(Store, "tags-by-key", last.key) = last.tags
    /\ \A t \in last.tags : last.key \in smembers(Store, "keys-by-tag", t)
    /\ last.key \in smembers(Store, "CacheKeys", None)
    /\ last.tags \subseteq smembers(Store, "Tags", None)
    /\ get(Store, last.key) = last.value

\* C4 as amended: after set(k, v, T), get_tags(k) is the set of the tags in T
\* together with the tags tags-by-key:k held when the call started (exactly
\* the tags in T when it held none); the rest as stated.
C4_SetAddsItsTags ==
  last.op = "set" =>
    /\ smembers(Store, "tags-by-key", last.key) =
         smembers(pre, "tags-by-key", last.key) \cup last.tags
    /\ \A t \in last.tags : last.key \in smembers(Store, "keys-by-tag", t)
    /\ last.key \in smembers(Store, "CacheKeys", None)
    /\ last.tags \subseteq smembers(Store, "Tags", None)
    /\ get(Store, last.key) = last.value

\* A set has run on a key that had no tags, with a list that holds one tag
\* twice.
C4_Witness ==
  /\ last.op = "set"
  /\ smembers(pre, "tags-by-key", last.key) = {}
  /\ last.repeated
  /\ smembers(Store, "tags-by-key", last.key) = last.tags

\* C5 (orphan reclamation on read): when the primary entry of k has expired,
\* get(k) with gc enabled returns None, and after it get_tags(k) is empty, k
\* is not in CacheKeys and k is in no keys-by-tag set.
C5_OrphanReclaimedOnRead ==
  (last.op = "get" /\ last.gc /\ last.key \in expired) =>
    /\ last.ret = None
    /\ smembers(Store, "tags-by-key", last.key) = {}
    /\ last.key \notin smembers(Store, "CacheKeys", None)
    /\ \A t \in TagNames : last.key \notin smembers(Store, "keys-by-tag", t)

\* get with gc enabled has run on an expired key that was still in CacheKeys,
\* had tags and was in the set of a tag.
C5_Witness ==
  /\ last.op = "get" /\ last.gc /\ last.key \in expired
  /\ last.key \in smembers(pre, "CacheKeys", None)
  /\ smembers(pre, "tags-by-key", last.key) # {}
  /\ \E t \in TagNames : last.key \in smembers(pre, "keys-by-tag", t)

\* C6 (idempotent clear): clear(k) called twice in a row leaves the database
\* that clear(k) called once leaves: the second call changes nothing.
C6_ClearIdempotent ==
  [][(last.op = "clear" /\ last'.op = "clear" /\ last'.key = last.key) =>
       Store' = Store]_vars

\* C7 (sweep correctness for keys): gc() removes from CacheKeys, from every
\* keys-by-tag set and from tags-by-key exactly the keys that have no primary
\* entry, and leaves the primary entries and the index entries of the other
\* keys as they are.
C7_SweepKeys ==
  FullSweep =>
    /\ val = pre.val
    /\ ttl = pre.ttl
    /\ CacheKeys = smembers(pre, "CacheKeys", None) \ Orphaned
    /\ \A k \in Keys :
         tagsByKey[k] =
           IF k \in Orphaned THEN {} ELSE smembers(pre, "tags-by-key", k)
    /\ \A t \in TagNames :
         keysByTag[t] = smembers(pre, "keys-by-tag", t) \ Orphaned

\* gc() has run on a database where an orphaned key and a key with a primary
\* entry shared a tag.
C7_Witness ==
  /\ FullSweep
  /\ \E t \in TagNames, k \in Orphaned, j \in Keys \ Orphaned :
       /\ {k, j} \subseteq smembers(pre, "keys-by-tag", t)
       /\ {k, j} \subseteq smembers(pre, "CacheKeys", None)

\* C8 (sweep correctness for tags): gc() removes from Tags exactly the tags
\* whose keys-by-tag set is empty once the key removals of this sweep are
\* applied: afterwards no tag with an empty keys-by-tag set is in Tags and
\* every tag with a non-empty one still is.
C8_SweepTags ==
  FullSweep =>
    /\ Tags = {t \in smembers(pre, "Tags", None) : keysByTag[t] # {}}
    /\ \A t \in TagNames : t \in Tags <=> keysByTag[t] # {}

\* C9 (clear): after clear(k), get(k) returns None, k is not in CacheKeys, k
\* is in no keys-by-tag set and get_tags(k) is empty; the primary entry and
\* the tag associations of every other key are as before.
C9_ClearPostcondition ==
  last.op = "clear" =>
    /\ get(Store, last.key) = None
    /\ last.key \notin smembers(Store, "CacheKeys", None)
    /\ \A t \in TagNames : last.key \notin smembers(Store, "keys-by-tag", t)
    /\ smembers(Store, "tags-by-key", last.key) = {}
    /\ \A j \in Keys \ {last.key} :
         /\ val[j] = pre.val[j]
         /\ ttl[j] = pre.ttl[j]
         /\ tagsByKey[j] = smembers(pre, "tags-by-key", j)
         /\ \A t \in TagNames :
              j \in keysByTag[t] <=> j \in smembers(pre, "keys-by-tag", t)

\* clear has run on a key that had a primary entry and a tag, while another
\* key was an orphan carrying the same tag.
C9_Witness ==
  /\ last.op = "clear"
  /\ exists(pre, last.key)
  /\ \E t \in smembers(pre, "tags-by-key", last.key), j \in Orphaned :
       /\ {last.key, j} \subseteq smembers(pre, "keys-by-tag", t)
       /\ j \in keysByTag[t]

\* C10 (reads without reconciliation): get(k, gc=False), get(k) that finds a
\* value, get_tags(k) and get_keys(t) change nothing in the database.
C10_ReadsChangeNothing ==
  (\/ last.op \in {"get_tags", "get_keys"}
   \/ (last.op = "get" /\ (~last.gc \/ last.ret # None))) =>
    Store = pre

\* get(k, gc=False) has missed an expired key, and the index still holds the
\* key's stale memberships.
C10_Witness ==
  /\ last.op = "get" /\ ~last.gc /\ last.ret = None
  /\ last.key \in expired
  /\ smembers(Store, "tags-by-key", last.key) # {}
  /\ \E t \in TagNames : last.key \in smembers(Store, "keys-by-tag", t)

\* The index entries of key k in the database s: whether k is in CacheKeys,
\* its tags-by-key set, and the tags whose keys-by-tag set holds k.
IndexEntries(s, k) ==
  [in_cache_keys |-> k \in smembers(s, "CacheKeys", None),
   tags |-> smembers(s, "tags-by-key", k),
   tag_sets |-> {t \in TagNames : k \in smembers(s, "keys-by-tag", t)}]

\* Key k is expired-but-indexed in the database s.
ExpiredButIndexed(s, k) ==
  /\ ~exists(s, k)
  /\ \/ k \in smembers(s, "CacheKeys", None)
     \/ smembers(s, "tags-by-key", k) # {}
     \/ \E t \in TagNames : k \in smembers(s, "keys-by-tag", t)

\* C11 (gc/set race converges): when a gc has read key k as missing, a
\* set(k, v, T) has committed before the gc executed its pipeline, and the
\* next get(k) or gc() has run with no other call in between, k is in
\* CacheKeys and in keys-by-tag:t for every t in T.
C11_RaceConverges ==
  race.stage = "converged" =>
    /\ race.key \in CacheKeys
    /\ \A t \in race.tags : race.key \in keysByTag[t]

\* C12 (index divergence is temporary): after a gc() that ran while no call
\* was between two round trips, with no step since, k is in keys-by-tag:t
\* iff t is in tags-by-key:k, for every key k and tag t.
C12_SweepRestoresDirections ==
  sweeps >= 1 =>
    \A k \in Keys, t \in TagNames : k \in keysByTag[t] <=> t \in tagsByKey[k]

\* C15 (reconciliation never touches primary values): the pipeline gc has
\* queued holds only srem on CacheKeys, Tags and keys-by-tag sets and delete
\* of tags-by-key and keys-by-tag sets; the steps of a gc in flight leave
\* every primary entry and its expiry as they are; and a primary entry gets
\* a value only by a set of its key with that value.
C15_GcLeavesValues ==
  [][/\ inflight'.stage = "gc_batch" =>
          \A i \in 1..Len(inflight'.pipeline) :
            LET c == inflight'.pipeline[i]
            IN \/ c.cmd = "srem" /\ c.coll \in {"CacheKeys", "Tags", "keys-by-tag"}
               \/ c.cmd = "delete" /\ c.coll \in {"tags-by-key", "keys-by-tag"}
     /\ (inflight.stage \in {"gc_read", "gc_batch"} /\ inflight' # inflight) =>
          /\ val' = val
          /\ ttl' = ttl
          /\ CacheKeys' \subseteq CacheKeys
          /\ Tags' \subseteq Tags
          /\ \A k \in Keys : tagsByKey'[k] \in {tagsByKey[k], {}}
          /\ \A t \in TagNames : keysByTag'[t] \subseteq keysByTag[t]
     /\ \A k \in Keys :
          (val'[k] # val[k] /\ val'[k] # None) =>
            \E tags \in RaceTagLists, seconds \in TTLs :
              Store' = cache_set(Store, k, val'[k], tags, seconds)]_vars

\* A gc that was overtaken by a set of a key it had read as missing has
\* executed its pipeline, which removed index entries, and the entry of the
\* key holds the value of the set.
C15_Witness ==
  /\ race.stage = "swept"
  /\ exists(Store, race.key)
  /\ race.key \notin CacheKeys

\* C13 (clear_tag reconciles only the keys it deleted): for every key that
\* was not a member of keys-by-tag:t when clear_tag(t) read it, the primary
\* entry and the index entries are after the call what they were before.
C13_ClearTagScoped ==
  last.op = "clear_tag" =>
    \A k \in Keys \ smembers(pre, "keys-by-tag", last.tag) :
      /\ val[k] = pre.val[k]
      /\ ttl[k] = pre.ttl[k]
      /\ IndexEntries(Store, k) = IndexEntries(pre, k)

\* C14 (orphan persistence): the index entries of a key k that is
\* expired-but-indexed stay as they are across every call but get(k) with gc
\* enabled, clear(k), clear_tag of a tag k carries, a gc whose keys include
\* k, set(k) and clear_all().
C14_OrphanPersists ==
  \A k \in Keys :
    (/\ ExpiredButIndexed(pre, k)
     /\ ~(last.op = "get" /\ last.key = k /\ last.gc)
     /\ ~(last.op = "clear" /\ last.key = k)
     /\ ~(last.op = "clear_tag"
           /\ (\/ last.tag \in smembers(pre, "tags-by-key", k)
               \/ k \in smembers(pre, "keys-by-tag", last.tag)))
     /\ ~(last.op = "gc" /\ k \in gc_keys(pre, last.gc_keys))
     /\ ~(last.op = "set" /\ last.key = k)
     /\ last.op # "clear_all")
    => IndexEntries(Store, k) = IndexEntries(pre, k)

\* C16 (tag replacement by clear-then-set): after clear(k) followed by
\* set(k, v, T), get_tags(k) is exactly the set of the tags in T, k is in
\* keys-by-tag:t for exactly the tags t in T, and get(k) returns v.
C16_ClearThenSetReplaces ==
  [][(last.op = "clear" /\ last'.op = "set" /\ last'.key = last.key) =>
       LET k == last.key
       IN /\ tagsByKey'[k] = last'.tags
          /\ \A t \in TagNames : k \in keysByTag'[t] <=> t \in last'.tags
          /\ val'[k] = last'.value]_vars

\* A set with tags has run on a key in the state clear leaves a key in (no
\* primary entry, no index entry), and the key has the tags of the call, not
\* every tag there is.
C16_Witness ==
  /\ last.op = "set"
  /\ ~exists(pre, last.key)
  /\ ~ExpiredButIndexed(pre, last.key)
  /\ last.tags # {}
  /\ TagNames \ last.tags # {}
  /\ IndexEntries(Store, last.key).tag_sets = last.tags

\* C17 (clear_tag cleans the deleted keys out of every index): after
\* clear_tag(t), every key that was a member of keys-by-tag:t is not in
\* CacheKeys, has no tags-by-key set and is in no keys-by-tag set, and t is
\* not in Tags.
C17_ClearTagCleansIndexes ==
  last.op = "clear_tag" =>
    /\ \A k \in smembers(pre, "keys-by-tag", last.tag) :
         IndexEntries(Store, k) =
           [in_cache_keys |-> FALSE, tags |-> {}, tag_sets |-> {}]
    /\ last.tag \notin smembers(Store, "Tags", None)

\* clear_tag has run on a tag in Tags that had a key carrying another tag as
\* well.
C17_Witness ==
  /\ last.op = "clear_tag"
  /\ last.tag \in smembers(pre, "Tags", None)
  /\ \E k \in smembers(pre, "keys-by-tag", last.tag) :
       /\ exists(pre, k)
       /\ IndexEntries(pre, k).tag_sets \ {last.tag} # {}

\* Nothing is left to reconcile in the database s: every key in CacheKeys has
\* a primary entry, no index set refers to a key without one, and every tag
\* in Tags has a non-empty keys-by-tag set.
Reconciled(s) ==
  /\ \A k \in Keys : ~ExpiredButIndexed(s, k)
  /\ \A t \in smembers(s, "Tags", None) : smembers(s, "keys-by-tag", t) # {}

\* C18 (reconciliation converges): after two gc() calls that ran one after
\* the other, while no call was between two round trips and with no other
\* step in between or since, nothing is left to reconcile and a further gc()
\* does not change the database.
C18_TwoSweepsReconcile ==
  sweeps = 2 => (Reconciled(Store) /\ cache_gc(Store, {}, {}) = Store)

\* C19 (sequential index invariant): after every call, every key with a
\* primary entry is in CacheKeys; k is in keys-by-tag:t iff t is in
\* tags-by-key:k; every key with a non-empty tags-by-key set is in CacheKeys;
\* every tag with a non-empty keys-by-tag set is in Tags.
C19_IndexInvariant ==
  /\ \A k \in Keys : exists(Store, k) => k \in CacheKeys
  /\ \A k \in Keys, t \in TagNames : k \in keysByTag[t] <=> t \in tagsByKey[k]
  /\ \A k \in Keys : tagsByKey[k] # {} => k \in CacheKeys
  /\ \A t \in TagNames : keysByTag[t] # {} => t \in Tags

\* A call has left a database with a key that has a primary entry and two
\* tags and an expired key that shares one of them.
C19_Witness ==
  \E k \in Keys, j \in Keys :
    /\ exists(Store, k) /\ Cardinality(tagsByKey[k]) = 2
    /\ ExpiredButIndexed(Store, j)
    /\ tagsByKey[k] \cap tagsByKey[j] # {}

\* C20 (stale tags survive expiry): when the primary entry of k is gone and
\* tags-by-key:k still holds the tags A, after set(k, v, B) get_tags(k) is
\* the union of A and B, k is in keys-by-tag:a for every a in A, and
\* clear_tag(a) would delete the new entry of k.
C20_StaleTagsSurvive ==
  (last.op = "set" /\ ~exists(pre, last.key)) =>
    LET k == last.key
        A == smembers(pre, "tags-by-key", k)
    IN /\ smembers(Store, "tags-by-key", k) = A \cup last.tags
       /\ \A a \in A :
            /\ k \in smembers(Store, "keys-by-tag", a)
            /\ ~exists(cache_clear_tag(Store, a), k)

\* A set has run on a key whose entry was gone and whose tags-by-key set held
\* a tag that the call does not give, with a tag that the set did not hold.
C20_Witness ==
  /\ last.op = "set"
  /\ ~exists(pre, last.key)
  /\ smembers(pre, "tags-by-key", last.key) \ last.tags # {}
  /\ last.tags \ smembers(pre, "tags-by-key", last.key) # {}
  /\ exists(Store, last.key)

====
